---- MODULE Spec2Model ----
(***************************************************************************)
(* TransportStreamReceiverImpl (gRPC binder transport): the per-stream     *)
(* rendezvous of wire arrivals (initial metadata, messages, trailing       *)
(* metadata) with consumer callbacks, under one mutex m_.                  *)
(*                                                                         *)
(* Every thread runs a stack of calls into the receiver: a callback body   *)
(* runs on the thread that invokes it and may itself call the receiver,    *)
(* which pushes a frame.  A frame's pc is the place of the call in its     *)
(* function: "lock" (before the MutexLock), "unlock" (critical section     *)
(* done, lock still held), "invoke" (lock released, callback not yet       *)
(* called) and "in_cb" (the callback body is running).                     *)
(***************************************************************************)
EXTENDS Integers, Sequences, FiniteSets, TLC

\* ---- bounds of the model
NumThreads == 2
NumStreams == 2
MaxCalls == 3
MaxDepth == 2
MaxPayload == 1
MaxStatus == 1

Threads == 1..NumThreads
Streams == 1..NumStreams
Payloads == 1..MaxPayload
StatusCodes == 0..MaxStatus

\* ---- values: absl::StatusOr<Metadata>, absl::StatusOr<std::string>, and the
\* pair (absl::StatusOr<Metadata>, int) of the trailing metadata
Ok(p) == [kind |-> "ok", v |-> p, status |-> 0]
TransportError == [kind |-> "transport_error", v |-> 0, status |-> 0]
kGrpcBinderTransportCancelledGracefully == [kind |-> "cancelled_gracefully", v |-> 0, status |-> 0]
ExternalError == [kind |-> "external_error", v |-> 0, status |-> 0]
NoValue == [kind |-> "none", v |-> 0, status |-> 0]
WithStatus(r, s) == [r EXCEPT !.status = s]

\* What the wire side can pass to a Notify*, what a caller can pass to CancelStream.
Results == {Ok(p) : p \in Payloads} \cup {TransportError}
TrailingResults == {WithStatus(r, s) : r \in Results, s \in StatusCodes}
CancelErrors == {ExternalError}

VARIABLES
  is_client_,                  \* role flag, fixed at construction
  initial_metadata_cbs_,       \* std::map<StreamIdentifier, callback>
  message_cbs_,
  trailing_metadata_cbs_,
  pending_initial_metadata_,   \* std::map<StreamIdentifier, std::queue<value>>
  pending_message_,
  pending_trailing_metadata_,
  recv_message_cancelled_,     \* std::set<StreamIdentifier>
  m_,                          \* the mutex: 0 when free, else the thread holding it
  stack,                       \* per thread, the calls in progress (innermost last)
  aborted,                     \* a GPR_ASSERT failed: the process is gone
  callbacks,                   \* history: callback -> its stream, channel, invocations
  calls,                       \* history: number of calls made so far
  accepted,                    \* history: accept_stream_callback_ invocations per stream
  notified,                    \* history: message values notified per stream since Clear
  notified_md,                 \* history: initial and trailing metadata notified per stream
                               \* since Clear, as [im, tm]
  matched,                     \* history: <<callback, value>> matches per stream since Clear
  tm_at,                       \* history: per stream, -1 or the number of messages notified
                               \* before its trailing metadata first took effect (since Clear)
  cleared                      \* history: per stream, "no", or since its last Clear nothing
                               \* touched it: "stale" (the Clear erased a marker or buffered
                               \* messages) or "empty"; "stale_reg" once a RegisterRecvMessage
                               \* has been the first to touch it after a "stale" Clear

maps == <<initial_metadata_cbs_, message_cbs_, trailing_metadata_cbs_,
          pending_initial_metadata_, pending_message_, pending_trailing_metadata_,
          recv_message_cancelled_>>
history == <<accepted, notified, notified_md, matched, tm_at, cleared>>
vars == <<is_client_, maps, m_, stack, aborted, callbacks, calls, history>>

\* ---- std::map as a function whose domain is the set of keys present
EmptyMap == [x \in {} |-> 0]
Has(m, id) == id \in DOMAIN m
Put(m, id, v) == [x \in (DOMAIN m) \cup {id} |-> IF x = id THEN v ELSE m[x]]
Erase(m, id) == [x \in (DOMAIN m) \ {id} |-> m[x]]
Get(m, id) == IF Has(m, id) THEN m[id] ELSE 0

\* A push that puts the new value in front of the queue.
PushFront(m, id, v) == Put(m, id, IF Has(m, id) THEN <<v>> \o m[id] ELSE <<v>>)
\* pending_x_[id].push(v): operator[] creates the queue on first use
Push(m, id, v) == Put(m, id, IF Has(m, id) THEN Append(m[id], v) ELSE <<v>>)
\* iter->second.pop(); if (iter->second.empty()) pending_x_.erase(iter);
PopFront(m, id) == IF Len(m[id]) = 1 THEN Erase(m, id) ELSE Put(m, id, Tail(m[id]))

\* ---- frames
Top(t) == stack[t][Len(stack[t])]
Frame(op, id, cb, val) ==
  [op |-> op, pc |-> "lock", id |-> id, cb |-> cb, val |-> val,
   hcb |-> 0, im |-> 0, msg |-> 0, tm |-> 0, wr |-> {}]
SetTop(t, f) == [stack EXCEPT ![t] = [@ EXCEPT ![Len(@)] = f]]
Return(t) == [stack EXCEPT ![t] = SubSeq(@, 1, Len(@) - 1)]
Enter(t, f) == [stack EXCEPT ![t] = Append(@, f)]
At(t, op, pc) == /\ ~aborted
                 /\ stack[t] # <<>>
                 /\ Top(t).op = op
                 /\ Top(t).pc = pc

CallbackPcs == {"in_cb", "in_cb_locked", "c_in_cb", "in_cb_im", "in_cb_msg", "in_cb_tm"}
LockedPcs == {"unlock", "c_unlock", "in_cb_locked"}
AllFrames == {<<t, i>> : t \in Threads, i \in 1..MaxDepth}
LiveFrames == {x \in AllFrames : x[2] <= Len(stack[x[1]])}
FrameAt(x) == stack[x[1]][x[2]]

\* A call is made by a thread that is idle, or from the body of a callback that is
\* running on the thread.
CanCall(t) ==
  /\ ~aborted
  /\ \/ stack[t] = <<>>
     \/ /\ stack[t] # <<>>
        /\ Top(t).pc \in CallbackPcs
        /\ Len(stack[t]) < MaxDepth

\* The consumer's side of the contract: no second registration for a stream and
\* event type while one is stored or is about to be stored.
RegisterOps == [im |-> "RegisterRecvInitialMetadata", msg |-> "RegisterRecvMessage",
                tm |-> "RegisterRecvTrailingMetadata"]
CbMap(ch) == CASE ch = "im" -> initial_metadata_cbs_
               [] ch = "msg" -> message_cbs_
               [] ch = "tm" -> trailing_metadata_cbs_
CanRegister(ch, id) ==
  /\ ~Has(CbMap(ch), id)
  /\ \A x \in LiveFrames :
       ~(FrameAt(x).op = RegisterOps[ch] /\ FrameAt(x).id = id /\ FrameAt(x).pc = "lock")

\* GPR_ASSERT(x_cbs_.count(id) == 0) reads the map without holding m_.  While another
\* thread is inside a critical section that inserts into or erases from that map the
\* read is a data race: it may see either answer (or take the process down, which
\* is the same outcome as the assertion failing).
Racing(t, ch) ==
  /\ m_ # 0
  /\ m_ # t
  /\ \E i \in 1..Len(stack[m_]) : stack[m_][i].pc \in LockedPcs /\ ch \in stack[m_][i].wr
CountIsZero(t, ch, id) ==
  IF Racing(t, ch) THEN BOOLEAN ELSE {~Has(CbMap(ch), id)}

\* cb(value): the invocation is recorded with whether the invoking thread holds m_.
Invoked(cb, v, t, by) ==
  [callbacks EXCEPT ![cb].inv = Append(@, [val |-> v, locked |-> (m_ = t), by |-> by])]
NewCallback(cb, id, ch) ==
  [x \in (DOMAIN callbacks) \cup {cb} |->
     IF x = cb THEN [id |-> id, ch |-> ch, inv |-> <<>>] ELSE callbacks[x]]

Init ==
  /\ is_client_ \in BOOLEAN
  /\ initial_metadata_cbs_ = EmptyMap
  /\ message_cbs_ = EmptyMap
  /\ trailing_metadata_cbs_ = EmptyMap
  /\ pending_initial_metadata_ = EmptyMap
  /\ pending_message_ = EmptyMap
  /\ pending_trailing_metadata_ = EmptyMap
  /\ recv_message_cancelled_ = {}
  /\ m_ = 0
  /\ stack = [t \in Threads |-> <<>>]
  /\ aborted = FALSE
  /\ callbacks = EmptyMap
  /\ calls = 0
  /\ accepted = [s \in Streams |-> 0]
  /\ notified = [s \in Streams |-> <<>>]
  /\ notified_md = [s \in Streams |-> [im |-> <<>>, tm |-> <<>>]]
  /\ matched = [s \in Streams |-> <<>>]
  /\ tm_at = [s \in Streams |-> -1]
  /\ cleared = [s \in Streams |-> "no"]

\* ---- RegisterRecvInitialMetadata
\* The call as the code runs it, whoever the caller is.
RegisterRecvInitialMetadata_Call(t, id) ==
  /\ CanCall(t)
  /\ \E zero \in CountIsZero(t, "im", id) :
       IF zero
       THEN /\ stack' = Enter(t, Frame("RegisterRecvInitialMetadata", id, calls + 1, NoValue))
            /\ callbacks' = NewCallback(calls + 1, id, "im")
            /\ calls' = calls + 1
            /\ UNCHANGED aborted
       ELSE /\ aborted' = TRUE
            /\ UNCHANGED <<stack, callbacks, calls>>
  /\ UNCHANGED <<is_client_, maps, m_, history>>

\* The call made by a consumer that keeps its side of the contract.
RegisterRecvInitialMetadata(t, id) ==
  /\ CanRegister("im", id)
  /\ RegisterRecvInitialMetadata_Call(t, id)

\* A registration that stores its callback without looking at the pending queue.
RegisterRecvInitialMetadata_Locked_AlwaysStore(t) ==
  /\ At(t, "RegisterRecvInitialMetadata", "lock")
  /\ m_ = 0
  /\ m_' = t
  /\ LET f == Top(t) IN
       /\ initial_metadata_cbs_' = Put(initial_metadata_cbs_, f.id, f.cb)
       /\ stack' = SetTop(t, [f EXCEPT !.pc = "unlock", !.cb = 0, !.wr = {"im"}])
  /\ cleared' = [cleared EXCEPT ![Top(t).id] = "no"]
  /\ UNCHANGED <<is_client_, message_cbs_, trailing_metadata_cbs_, pending_initial_metadata_,
                 pending_message_, pending_trailing_metadata_, recv_message_cancelled_,
                 aborted, callbacks, calls, accepted, notified, notified_md, matched, tm_at>>

RegisterRecvInitialMetadata_Locked(t) ==
  /\ At(t, "RegisterRecvInitialMetadata", "lock")
  /\ m_ = 0
  /\ m_' = t
  /\ LET f == Top(t) IN
       IF ~Has(pending_initial_metadata_, f.id)
       THEN /\ initial_metadata_cbs_' = Put(initial_metadata_cbs_, f.id, f.cb)
            /\ stack' = SetTop(t, [f EXCEPT !.pc = "unlock", !.cb = 0, !.wr = {"im"}])
            /\ UNCHANGED pending_initial_metadata_
       ELSE /\ pending_initial_metadata_' = PopFront(pending_initial_metadata_, f.id)
            /\ stack' = SetTop(t, [f EXCEPT !.pc = "unlock",
                                            !.val = Head(pending_initial_metadata_[f.id])])
            /\ UNCHANGED initial_metadata_cbs_
  /\ cleared' = [cleared EXCEPT ![Top(t).id] = "no"]
  /\ UNCHANGED <<is_client_, message_cbs_, trailing_metadata_cbs_, pending_message_,
                 pending_trailing_metadata_, recv_message_cancelled_, aborted, callbacks,
                 calls, accepted, notified, notified_md, matched, tm_at>>

\* The end of a critical section of a Register* or of the matching part of a Notify*:
\* the MutexLock goes out of scope; with no callback in hand the call returns.
ReleaseThenInvoke(t) ==
  /\ m_ = t
  /\ m_' = 0
  /\ LET f == Top(t) IN
       stack' = IF f.cb # 0 THEN SetTop(t, [f EXCEPT !.pc = "invoke", !.wr = {}])
                ELSE Return(t)
  /\ UNCHANGED <<is_client_, maps, aborted, callbacks, calls, history>>

\* if (cb != nullptr) cb(std::move(value)): the callback body starts to run.
InvokeValue(t, by) ==
  /\ callbacks' = Invoked(Top(t).cb, Top(t).val, t, by)
  /\ stack' = SetTop(t, [Top(t) EXCEPT !.pc = "in_cb"])
  /\ UNCHANGED <<is_client_, maps, m_, aborted, calls, history>>

\* The callback body returns and, the invocation being the last statement, so does
\* the call.
CallbackReturns(t) ==
  /\ stack' = Return(t)
  /\ UNCHANGED <<is_client_, maps, m_, aborted, callbacks, calls, history>>

RegisterRecvInitialMetadata_Unlock(t) ==
  /\ At(t, "RegisterRecvInitialMetadata", "unlock")
  /\ ReleaseThenInvoke(t)

RegisterRecvInitialMetadata_Invoke(t) ==
  /\ At(t, "RegisterRecvInitialMetadata", "invoke")
  /\ InvokeValue(t, "register")

RegisterRecvInitialMetadata_Return(t) ==
  /\ At(t, "RegisterRecvInitialMetadata", "in_cb")
  /\ CallbackReturns(t)

\* ---- NotifyRecvInitialMetadata
\* A notify that does not signal the accept-stream event.
NotifyRecvInitialMetadata_NoAccept(t, id, initial_metadata) ==
  /\ CanCall(t)
  /\ UNCHANGED accepted
  /\ stack' = Enter(t, Frame("NotifyRecvInitialMetadata", id, 0, initial_metadata))
  /\ calls' = calls + 1
  /\ UNCHANGED <<is_client_, maps, m_, aborted, callbacks, notified, notified_md, matched,
                 tm_at, cleared>>

NotifyRecvInitialMetadata(t, id, initial_metadata) ==
  /\ CanCall(t)
  /\ accepted' = IF ~is_client_ THEN [accepted EXCEPT ![id] = @ + 1] ELSE accepted
  /\ stack' = Enter(t, Frame("NotifyRecvInitialMetadata", id, 0, initial_metadata))
  /\ calls' = calls + 1
  /\ UNCHANGED <<is_client_, maps, m_, aborted, callbacks, notified, notified_md, matched,
                 tm_at, cleared>>

NotifyRecvInitialMetadata_Locked(t) ==
  /\ At(t, "NotifyRecvInitialMetadata", "lock")
  /\ m_ = 0
  /\ m_' = t
  /\ LET f == Top(t) IN
       IF Has(initial_metadata_cbs_, f.id)
       THEN /\ initial_metadata_cbs_' = Erase(initial_metadata_cbs_, f.id)
            /\ stack' = SetTop(t, [f EXCEPT !.pc = "unlock",
                                            !.cb = initial_metadata_cbs_[f.id],
                                            !.wr = {"im"}])
            /\ UNCHANGED pending_initial_metadata_
       ELSE /\ pending_initial_metadata_' = Push(pending_initial_metadata_, f.id, f.val)
            /\ stack' = SetTop(t, [f EXCEPT !.pc = "unlock"])
            /\ UNCHANGED initial_metadata_cbs_
  /\ cleared' = [cleared EXCEPT ![Top(t).id] = "no"]
  /\ UNCHANGED <<is_client_, message_cbs_, trailing_metadata_cbs_, pending_message_,
                 pending_trailing_metadata_, recv_message_cancelled_, aborted, callbacks,
                 calls, accepted, notified, matched, tm_at>>
  /\ notified_md' = [notified_md EXCEPT ![Top(t).id].im = Append(@, Top(t).val)]

NotifyRecvInitialMetadata_Unlock(t) ==
  /\ At(t, "NotifyRecvInitialMetadata", "unlock")
  /\ ReleaseThenInvoke(t)

NotifyRecvInitialMetadata_Invoke(t) ==
  /\ At(t, "NotifyRecvInitialMetadata", "invoke")
  /\ InvokeValue(t, "notify")

NotifyRecvInitialMetadata_Return(t) ==
  /\ At(t, "NotifyRecvInitialMetadata", "in_cb")
  /\ CallbackReturns(t)

\* ---- RegisterRecvMessage
\* The call as the code runs it, whoever the caller is.
RegisterRecvMessage_Call(t, id) ==
  /\ CanCall(t)
  /\ \E zero \in CountIsZero(t, "msg", id) :
       IF zero
       THEN /\ stack' = Enter(t, Frame("RegisterRecvMessage", id, calls + 1, NoValue))
            /\ callbacks' = NewCallback(calls + 1, id, "msg")
            /\ calls' = calls + 1
            /\ UNCHANGED aborted
       ELSE /\ aborted' = TRUE
            /\ UNCHANGED <<stack, callbacks, calls>>
  /\ UNCHANGED <<is_client_, maps, m_, history>>

\* The call made by a consumer that keeps its side of the contract.
RegisterRecvMessage(t, id) ==
  /\ CanRegister("msg", id)
  /\ RegisterRecvMessage_Call(t, id)

\* A registration that looks at the cancellation marker before the buffered messages.
RegisterRecvMessage_Locked_MarkerFirst(t) ==
  /\ At(t, "RegisterRecvMessage", "lock")
  /\ m_ = 0
  /\ m_' = t
  /\ LET f == Top(t) IN
       IF f.id \in recv_message_cancelled_
       THEN /\ callbacks' = [callbacks EXCEPT ![f.cb].inv =
                               Append(@, [val |-> kGrpcBinderTransportCancelledGracefully,
                                          locked |-> TRUE, by |-> "register_cancelled"])]
            /\ stack' = SetTop(t, [f EXCEPT !.pc = "in_cb_locked"])
            /\ UNCHANGED <<message_cbs_, pending_message_, matched>>
       ELSE IF ~Has(pending_message_, f.id)
       THEN /\ message_cbs_' = Put(message_cbs_, f.id, f.cb)
            /\ stack' = SetTop(t, [f EXCEPT !.pc = "unlock", !.cb = 0, !.wr = {"msg"}])
            /\ UNCHANGED <<callbacks, pending_message_, matched>>
       ELSE /\ pending_message_' = PopFront(pending_message_, f.id)
            /\ stack' = SetTop(t, [f EXCEPT !.pc = "unlock", !.val = Head(pending_message_[f.id])])
            /\ matched' = [matched EXCEPT ![f.id] = Append(@, <<f.cb, Head(pending_message_[f.id])>>)]
            /\ UNCHANGED <<message_cbs_, callbacks>>
  /\ cleared' = [cleared EXCEPT ![Top(t).id] = IF @ = "stale" THEN "stale_reg" ELSE "no"]
  /\ UNCHANGED <<is_client_, initial_metadata_cbs_, trailing_metadata_cbs_,
                 pending_initial_metadata_, pending_trailing_metadata_,
                 recv_message_cancelled_, aborted, calls, accepted, notified, notified_md, tm_at>>

\* The critical section.  With no pending message and the stream marked cancelled the
\* callback is called right there, inside the critical section (line 67).
\* A registration that does not consult recv_message_cancelled_.
RegisterRecvMessage_Locked_IgnoresMarker(t) ==
  /\ At(t, "RegisterRecvMessage", "lock")
  /\ m_ = 0
  /\ m_' = t
  /\ LET f == Top(t) IN
       IF ~Has(pending_message_, f.id)
       THEN /\ IF FALSE
               THEN /\ callbacks' = [callbacks EXCEPT ![f.cb].inv =
                                       Append(@, [val |-> kGrpcBinderTransportCancelledGracefully,
                                                  locked |-> TRUE, by |-> "register_cancelled"])]
                    /\ stack' = SetTop(t, [f EXCEPT !.pc = "in_cb_locked"])
                    /\ UNCHANGED message_cbs_
               ELSE /\ message_cbs_' = Put(message_cbs_, f.id, f.cb)
                    /\ stack' = SetTop(t, [f EXCEPT !.pc = "unlock", !.cb = 0, !.wr = {"msg"}])
                    /\ UNCHANGED callbacks
            /\ UNCHANGED <<pending_message_, matched>>
       ELSE /\ pending_message_' = PopFront(pending_message_, f.id)
            /\ stack' = SetTop(t, [f EXCEPT !.pc = "unlock", !.val = Head(pending_message_[f.id])])
            /\ matched' = [matched EXCEPT ![f.id] = Append(@, <<f.cb, Head(pending_message_[f.id])>>)]
            /\ UNCHANGED <<message_cbs_, callbacks>>
  /\ cleared' = [cleared EXCEPT ![Top(t).id] = IF @ = "stale" THEN "stale_reg" ELSE "no"]
  /\ UNCHANGED <<is_client_, initial_metadata_cbs_, trailing_metadata_cbs_,
                 pending_initial_metadata_, pending_trailing_metadata_,
                 recv_message_cancelled_, aborted, calls, accepted, notified, notified_md, tm_at>>

RegisterRecvMessage_Locked(t) ==
  /\ At(t, "RegisterRecvMessage", "lock")
  /\ m_ = 0
  /\ m_' = t
  /\ LET f == Top(t) IN
       IF ~Has(pending_message_, f.id)
       THEN /\ IF f.id \in recv_message_cancelled_
               THEN /\ callbacks' = [callbacks EXCEPT ![f.cb].inv =
                                       Append(@, [val |-> kGrpcBinderTransportCancelledGracefully,
                                                  locked |-> TRUE, by |-> "register_cancelled"])]
                    /\ stack' = SetTop(t, [f EXCEPT !.pc = "in_cb_locked"])
                    /\ UNCHANGED message_cbs_
               ELSE /\ message_cbs_' = Put(message_cbs_, f.id, f.cb)
                    /\ stack' = SetTop(t, [f EXCEPT !.pc = "unlock", !.cb = 0, !.wr = {"msg"}])
                    /\ UNCHANGED callbacks
            /\ UNCHANGED <<pending_message_, matched>>
       ELSE /\ pending_message_' = PopFront(pending_message_, f.id)
            /\ stack' = SetTop(t, [f EXCEPT !.pc = "unlock", !.val = Head(pending_message_[f.id])])
            /\ matched' = [matched EXCEPT ![f.id] = Append(@, <<f.cb, Head(pending_message_[f.id])>>)]
            /\ UNCHANGED <<message_cbs_, callbacks>>
  /\ cleared' = [cleared EXCEPT ![Top(t).id] = IF @ = "stale" THEN "stale_reg" ELSE "no"]
  /\ UNCHANGED <<is_client_, initial_metadata_cbs_, trailing_metadata_cbs_,
                 pending_initial_metadata_, pending_trailing_metadata_,
                 recv_message_cancelled_, aborted, calls, accepted, notified, notified_md, tm_at>>

\* The cancelled callback's body returns to line 72, still inside the critical section.
RegisterRecvMessage_CancelledReturn(t) ==
  /\ At(t, "RegisterRecvMessage", "in_cb_locked")
  /\ stack' = SetTop(t, [Top(t) EXCEPT !.pc = "unlock", !.cb = 0])
  /\ UNCHANGED <<is_client_, maps, m_, aborted, callbacks, calls, history>>

RegisterRecvMessage_Unlock(t) ==
  /\ At(t, "RegisterRecvMessage", "unlock")
  /\ ReleaseThenInvoke(t)

RegisterRecvMessage_Invoke(t) ==
  /\ At(t, "RegisterRecvMessage", "invoke")
  /\ InvokeValue(t, "register")

RegisterRecvMessage_Return(t) ==
  /\ At(t, "RegisterRecvMessage", "in_cb")
  /\ CallbackReturns(t)

\* ---- RegisterRecvTrailingMetadata
\* The call as the code runs it, whoever the caller is.
RegisterRecvTrailingMetadata_Call(t, id) ==
  /\ CanCall(t)
  /\ \E zero \in CountIsZero(t, "tm", id) :
       IF zero
       THEN /\ stack' = Enter(t, Frame("RegisterRecvTrailingMetadata", id, calls + 1, NoValue))
            /\ callbacks' = NewCallback(calls + 1, id, "tm")
            /\ calls' = calls + 1
            /\ UNCHANGED aborted
       ELSE /\ aborted' = TRUE
            /\ UNCHANGED <<stack, callbacks, calls>>
  /\ UNCHANGED <<is_client_, maps, m_, history>>

\* The call made by a consumer that keeps its side of the contract.
RegisterRecvTrailingMetadata(t, id) ==
  /\ CanRegister("tm", id)
  /\ RegisterRecvTrailingMetadata_Call(t, id)

RegisterRecvTrailingMetadata_Locked(t) ==
  /\ At(t, "RegisterRecvTrailingMetadata", "lock")
  /\ m_ = 0
  /\ m_' = t
  /\ LET f == Top(t) IN
       IF ~Has(pending_trailing_metadata_, f.id)
       THEN /\ trailing_metadata_cbs_' = Put(trailing_metadata_cbs_, f.id, f.cb)
            /\ stack' = SetTop(t, [f EXCEPT !.pc = "unlock", !.cb = 0, !.wr = {"tm"}])
            /\ UNCHANGED pending_trailing_metadata_
       ELSE /\ pending_trailing_metadata_' = PopFront(pending_trailing_metadata_, f.id)
            /\ stack' = SetTop(t, [f EXCEPT !.pc = "unlock",
                                            !.val = Head(pending_trailing_metadata_[f.id])])
            /\ UNCHANGED trailing_metadata_cbs_
  /\ cleared' = [cleared EXCEPT ![Top(t).id] = "no"]
  /\ UNCHANGED <<is_client_, initial_metadata_cbs_, message_cbs_, pending_initial_metadata_,
                 pending_message_, recv_message_cancelled_, aborted, callbacks,
                 calls, accepted, notified, notified_md, matched, tm_at>>

RegisterRecvTrailingMetadata_Unlock(t) ==
  /\ At(t, "RegisterRecvTrailingMetadata", "unlock")
  /\ ReleaseThenInvoke(t)

RegisterRecvTrailingMetadata_Invoke(t) ==
  /\ At(t, "RegisterRecvTrailingMetadata", "invoke")
  /\ InvokeValue(t, "register")

RegisterRecvTrailingMetadata_Return(t) ==
  /\ At(t, "RegisterRecvTrailingMetadata", "in_cb")
  /\ CallbackReturns(t)

\* ---- NotifyRecvMessage
NotifyRecvMessage(t, id, message) ==
  /\ CanCall(t)
  /\ stack' = Enter(t, Frame("NotifyRecvMessage", id, 0, message))
  /\ calls' = calls + 1
  /\ UNCHANGED <<is_client_, maps, m_, aborted, callbacks, history>>

\* NotifyRecvMessage that copies the stored callback and leaves it in the map.
NotifyRecvMessage_Locked_NoErase(t) ==
  /\ At(t, "NotifyRecvMessage", "lock")
  /\ m_ = 0
  /\ m_' = t
  /\ LET f == Top(t) IN
       /\ IF Has(message_cbs_, f.id)
          THEN /\ stack' = SetTop(t, [f EXCEPT !.pc = "unlock", !.cb = message_cbs_[f.id]])
               /\ matched' = [matched EXCEPT ![f.id] = Append(@, <<message_cbs_[f.id], f.val>>)]
               /\ UNCHANGED <<message_cbs_, pending_message_>>
          ELSE /\ pending_message_' = Push(pending_message_, f.id, f.val)
               /\ stack' = SetTop(t, [f EXCEPT !.pc = "unlock"])
               /\ UNCHANGED <<message_cbs_, matched>>
       /\ notified' = [notified EXCEPT ![f.id] = Append(@, f.val)]
       /\ UNCHANGED notified_md
  /\ cleared' = [cleared EXCEPT ![Top(t).id] = "no"]
  /\ UNCHANGED <<is_client_, initial_metadata_cbs_, trailing_metadata_cbs_,
                 pending_initial_metadata_, pending_trailing_metadata_,
                 recv_message_cancelled_, aborted, callbacks, calls, accepted, tm_at>>

NotifyRecvMessage_Locked(t) ==
  /\ At(t, "NotifyRecvMessage", "lock")
  /\ m_ = 0
  /\ m_' = t
  /\ LET f == Top(t) IN
       /\ IF Has(message_cbs_, f.id)
          THEN /\ message_cbs_' = Erase(message_cbs_, f.id)
               /\ stack' = SetTop(t, [f EXCEPT !.pc = "unlock", !.cb = message_cbs_[f.id],
                                               !.wr = {"msg"}])
               /\ matched' = [matched EXCEPT ![f.id] = Append(@, <<message_cbs_[f.id], f.val>>)]
               /\ UNCHANGED pending_message_
          ELSE /\ pending_message_' = Push(pending_message_, f.id, f.val)
               /\ stack' = SetTop(t, [f EXCEPT !.pc = "unlock"])
               /\ UNCHANGED <<message_cbs_, matched>>
       /\ notified' = [notified EXCEPT ![f.id] = Append(@, f.val)]
       /\ UNCHANGED notified_md
  /\ cleared' = [cleared EXCEPT ![Top(t).id] = "no"]
  /\ UNCHANGED <<is_client_, initial_metadata_cbs_, trailing_metadata_cbs_,
                 pending_initial_metadata_, pending_trailing_metadata_,
                 recv_message_cancelled_, aborted, callbacks, calls, accepted, tm_at>>

NotifyRecvMessage_Unlock(t) ==
  /\ At(t, "NotifyRecvMessage", "unlock")
  /\ ReleaseThenInvoke(t)

NotifyRecvMessage_Invoke(t) ==
  /\ At(t, "NotifyRecvMessage", "invoke")
  /\ InvokeValue(t, "notify")

NotifyRecvMessage_Return(t) ==
  /\ At(t, "NotifyRecvMessage", "in_cb")
  /\ CallbackReturns(t)

\* ---- NotifyRecvTrailingMetadata, which starts with
\* CancelRecvMessageCallbacksDueToTrailingMetadata (pcs c_lock, c_unlock, c_invoke,
\* c_in_cb)
NotifyRecvTrailingMetadata(t, id, trailing_metadata, status) ==
  /\ CanCall(t)
  /\ stack' = Enter(t, [Frame("NotifyRecvTrailingMetadata", id, 0,
                              WithStatus(trailing_metadata, status)) EXCEPT !.pc = "c_lock"])
  /\ calls' = calls + 1
  /\ UNCHANGED <<is_client_, maps, m_, aborted, callbacks, history>>

\* A cancellation that marks the stream only when a message callback was waiting.
CancelRecvMessageCallbacksDueToTrailingMetadata_Locked_MarkIfWaiting(t) ==
  /\ At(t, "NotifyRecvTrailingMetadata", "c_lock")
  /\ m_ = 0
  /\ m_' = t
  /\ LET f == Top(t) IN
       /\ IF Has(message_cbs_, f.id)
          THEN /\ message_cbs_' = Erase(message_cbs_, f.id)
               /\ stack' = SetTop(t, [f EXCEPT !.pc = "c_unlock", !.hcb = message_cbs_[f.id],
                                               !.wr = {"msg"}])
               /\ recv_message_cancelled_' = recv_message_cancelled_ \cup {f.id}
          ELSE /\ stack' = SetTop(t, [f EXCEPT !.pc = "c_unlock"])
               /\ UNCHANGED <<message_cbs_, recv_message_cancelled_>>
       /\ tm_at' = IF tm_at[f.id] = -1 THEN [tm_at EXCEPT ![f.id] = Len(notified[f.id])]
                   ELSE tm_at
       /\ cleared' = [cleared EXCEPT ![f.id] = "no"]
  /\ UNCHANGED <<is_client_, initial_metadata_cbs_, trailing_metadata_cbs_,
                 pending_initial_metadata_, pending_message_, pending_trailing_metadata_,
                 aborted, callbacks, calls, accepted, notified, notified_md, matched>>

\* A cancellation that also throws away the messages buffered for the stream.
CancelRecvMessageCallbacksDueToTrailingMetadata_Locked_DropsPending(t) ==
  /\ At(t, "NotifyRecvTrailingMetadata", "c_lock")
  /\ m_ = 0
  /\ m_' = t
  /\ LET f == Top(t) IN
       /\ IF Has(message_cbs_, f.id)
          THEN /\ message_cbs_' = Erase(message_cbs_, f.id)
               /\ stack' = SetTop(t, [f EXCEPT !.pc = "c_unlock", !.hcb = message_cbs_[f.id],
                                               !.wr = {"msg"}])
          ELSE /\ stack' = SetTop(t, [f EXCEPT !.pc = "c_unlock"])
               /\ UNCHANGED message_cbs_
       /\ pending_message_' = Erase(pending_message_, f.id)
       /\ recv_message_cancelled_' = recv_message_cancelled_ \cup {f.id}
       /\ tm_at' = IF tm_at[f.id] = -1 THEN [tm_at EXCEPT ![f.id] = Len(notified[f.id])]
                   ELSE tm_at
       /\ cleared' = [cleared EXCEPT ![f.id] = "no"]
  /\ UNCHANGED <<is_client_, initial_metadata_cbs_, trailing_metadata_cbs_,
                 pending_initial_metadata_, pending_trailing_metadata_,
                 aborted, callbacks, calls, accepted, notified, notified_md, matched>>

CancelRecvMessageCallbacksDueToTrailingMetadata_Locked(t) ==
  /\ At(t, "NotifyRecvTrailingMetadata", "c_lock")
  /\ m_ = 0
  /\ m_' = t
  /\ LET f == Top(t) IN
       /\ IF Has(message_cbs_, f.id)
          THEN /\ message_cbs_' = Erase(message_cbs_, f.id)
               /\ stack' = SetTop(t, [f EXCEPT !.pc = "c_unlock", !.hcb = message_cbs_[f.id],
                                               !.wr = {"msg"}])
          ELSE /\ stack' = SetTop(t, [f EXCEPT !.pc = "c_unlock"])
               /\ UNCHANGED message_cbs_
       /\ recv_message_cancelled_' = recv_message_cancelled_ \cup {f.id}
       /\ tm_at' = IF tm_at[f.id] = -1 THEN [tm_at EXCEPT ![f.id] = Len(notified[f.id])]
                   ELSE tm_at
       /\ cleared' = [cleared EXCEPT ![f.id] = "no"]
  /\ UNCHANGED <<is_client_, initial_metadata_cbs_, trailing_metadata_cbs_,
                 pending_initial_metadata_, pending_message_, pending_trailing_metadata_,
                 aborted, callbacks, calls, accepted, notified, notified_md, matched>>

\* A cancellation that drops the waiting callback without invoking it.
CancelRecvMessageCallbacksDueToTrailingMetadata_Unlock_Drop(t) ==
  /\ At(t, "NotifyRecvTrailingMetadata", "c_unlock")
  /\ m_ = t
  /\ m_' = 0
  /\ stack' = SetTop(t, [Top(t) EXCEPT !.pc = "lock", !.wr = {}])
  /\ UNCHANGED <<is_client_, maps, aborted, callbacks, calls, history>>

CancelRecvMessageCallbacksDueToTrailingMetadata_Unlock(t) ==
  /\ At(t, "NotifyRecvTrailingMetadata", "c_unlock")
  /\ m_ = t
  /\ m_' = 0
  /\ stack' = SetTop(t, [Top(t) EXCEPT !.pc = IF Top(t).hcb # 0 THEN "c_invoke" ELSE "lock",
                                       !.wr = {}])
  /\ UNCHANGED <<is_client_, maps, aborted, callbacks, calls, history>>

\* A cancellation that passes another error to the waiting callback.
CancelRecvMessageCallbacksDueToTrailingMetadata_Invoke_OtherError(t) ==
  /\ At(t, "NotifyRecvTrailingMetadata", "c_invoke")
  /\ callbacks' = Invoked(Top(t).hcb, TransportError, t, "tm_cancel")
  /\ stack' = SetTop(t, [Top(t) EXCEPT !.pc = "c_in_cb"])
  /\ UNCHANGED <<is_client_, maps, m_, aborted, calls, history>>

CancelRecvMessageCallbacksDueToTrailingMetadata_Invoke(t) ==
  /\ At(t, "NotifyRecvTrailingMetadata", "c_invoke")
  /\ callbacks' = Invoked(Top(t).hcb, kGrpcBinderTransportCancelledGracefully, t, "tm_cancel")
  /\ stack' = SetTop(t, [Top(t) EXCEPT !.pc = "c_in_cb"])
  /\ UNCHANGED <<is_client_, maps, m_, aborted, calls, history>>

CancelRecvMessageCallbacksDueToTrailingMetadata_Return(t) ==
  /\ At(t, "NotifyRecvTrailingMetadata", "c_in_cb")
  /\ stack' = SetTop(t, [Top(t) EXCEPT !.pc = "lock"])
  /\ UNCHANGED <<is_client_, maps, m_, aborted, callbacks, calls, history>>

\* A notify that buffers the trailing metadata without its status code.
NotifyRecvTrailingMetadata_Locked_DropsStatus(t) ==
  /\ At(t, "NotifyRecvTrailingMetadata", "lock")
  /\ m_ = 0
  /\ m_' = t
  /\ LET f == Top(t) IN
       IF Has(trailing_metadata_cbs_, f.id)
       THEN /\ trailing_metadata_cbs_' = Erase(trailing_metadata_cbs_, f.id)
            /\ stack' = SetTop(t, [f EXCEPT !.pc = "unlock",
                                            !.cb = trailing_metadata_cbs_[f.id],
                                            !.wr = {"tm"}])
            /\ UNCHANGED pending_trailing_metadata_
       ELSE /\ pending_trailing_metadata_' =
                 Push(pending_trailing_metadata_, f.id, WithStatus(f.val, 0))
            /\ stack' = SetTop(t, [f EXCEPT !.pc = "unlock"])
            /\ UNCHANGED trailing_metadata_cbs_
  /\ cleared' = [cleared EXCEPT ![Top(t).id] = "no"]
  /\ UNCHANGED <<is_client_, initial_metadata_cbs_, message_cbs_, pending_initial_metadata_,
                 pending_message_, recv_message_cancelled_, aborted, callbacks,
                 calls, accepted, notified, matched, tm_at>>
  /\ notified_md' = [notified_md EXCEPT ![Top(t).id].tm = Append(@, Top(t).val)]

NotifyRecvTrailingMetadata_Locked(t) ==
  /\ At(t, "NotifyRecvTrailingMetadata", "lock")
  /\ m_ = 0
  /\ m_' = t
  /\ LET f == Top(t) IN
       IF Has(trailing_metadata_cbs_, f.id)
       THEN /\ trailing_metadata_cbs_' = Erase(trailing_metadata_cbs_, f.id)
            /\ stack' = SetTop(t, [f EXCEPT !.pc = "unlock",
                                            !.cb = trailing_metadata_cbs_[f.id],
                                            !.wr = {"tm"}])
            /\ UNCHANGED pending_trailing_metadata_
       ELSE /\ pending_trailing_metadata_' = Push(pending_trailing_metadata_, f.id, f.val)
            /\ stack' = SetTop(t, [f EXCEPT !.pc = "unlock"])
            /\ UNCHANGED trailing_metadata_cbs_
  /\ cleared' = [cleared EXCEPT ![Top(t).id] = "no"]
  /\ UNCHANGED <<is_client_, initial_metadata_cbs_, message_cbs_, pending_initial_metadata_,
                 pending_message_, recv_message_cancelled_, aborted, callbacks,
                 calls, accepted, notified, matched, tm_at>>
  /\ notified_md' = [notified_md EXCEPT ![Top(t).id].tm = Append(@, Top(t).val)]

NotifyRecvTrailingMetadata_Unlock(t) ==
  /\ At(t, "NotifyRecvTrailingMetadata", "unlock")
  /\ ReleaseThenInvoke(t)

NotifyRecvTrailingMetadata_Invoke(t) ==
  /\ At(t, "NotifyRecvTrailingMetadata", "invoke")
  /\ InvokeValue(t, "notify")

NotifyRecvTrailingMetadata_Return(t) ==
  /\ At(t, "NotifyRecvTrailingMetadata", "in_cb")
  /\ CallbackReturns(t)

\* ---- CancelStream
CancelStream(t, id, error) ==
  /\ CanCall(t)
  /\ stack' = Enter(t, Frame("CancelStream", id, 0, error))
  /\ calls' = calls + 1
  /\ UNCHANGED <<is_client_, maps, m_, aborted, callbacks, history>>

\* A CancelStream that forgets the message channel.
CancelStream_Locked_NoMessage(t) ==
  /\ At(t, "CancelStream", "lock")
  /\ m_ = 0
  /\ m_' = t
  /\ LET f == Top(t) IN
       /\ initial_metadata_cbs_' = Erase(initial_metadata_cbs_, f.id)
       /\ trailing_metadata_cbs_' = Erase(trailing_metadata_cbs_, f.id)
       /\ stack' = SetTop(t, [f EXCEPT !.pc = "unlock",
                                       !.im = Get(initial_metadata_cbs_, f.id),
                                       !.tm = Get(trailing_metadata_cbs_, f.id),
                                       !.wr = {ch \in {"im", "tm"} : Has(CbMap(ch), f.id)}])
  /\ UNCHANGED <<is_client_, message_cbs_, pending_initial_metadata_, pending_message_,
                 pending_trailing_metadata_, recv_message_cancelled_, aborted, callbacks,
                 calls, history>>

\* A CancelStream that also marks the message channel of the stream cancelled.
CancelStream_Locked_Marks(t) ==
  /\ At(t, "CancelStream", "lock")
  /\ m_ = 0
  /\ m_' = t
  /\ LET f == Top(t) IN
       /\ initial_metadata_cbs_' = Erase(initial_metadata_cbs_, f.id)
       /\ message_cbs_' = Erase(message_cbs_, f.id)
       /\ trailing_metadata_cbs_' = Erase(trailing_metadata_cbs_, f.id)
       /\ recv_message_cancelled_' = recv_message_cancelled_ \cup {f.id}
       /\ stack' = SetTop(t, [f EXCEPT !.pc = "unlock",
                                       !.im = Get(initial_metadata_cbs_, f.id),
                                       !.msg = Get(message_cbs_, f.id),
                                       !.tm = Get(trailing_metadata_cbs_, f.id),
                                       !.wr = {ch \in {"im", "msg", "tm"} : Has(CbMap(ch), f.id)}])
  /\ UNCHANGED <<is_client_, pending_initial_metadata_, pending_message_,
                 pending_trailing_metadata_, aborted, callbacks, calls, history>>

CancelStream_Locked(t) ==
  /\ At(t, "CancelStream", "lock")
  /\ m_ = 0
  /\ m_' = t
  /\ LET f == Top(t) IN
       /\ initial_metadata_cbs_' = Erase(initial_metadata_cbs_, f.id)
       /\ message_cbs_' = Erase(message_cbs_, f.id)
       /\ trailing_metadata_cbs_' = Erase(trailing_metadata_cbs_, f.id)
       /\ stack' = SetTop(t, [f EXCEPT !.pc = "unlock",
                                       !.im = Get(initial_metadata_cbs_, f.id),
                                       !.msg = Get(message_cbs_, f.id),
                                       !.tm = Get(trailing_metadata_cbs_, f.id),
                                       !.wr = {ch \in {"im", "msg", "tm"} : Has(CbMap(ch), f.id)}])
  /\ UNCHANGED <<is_client_, pending_initial_metadata_, pending_message_,
                 pending_trailing_metadata_, recv_message_cancelled_, aborted, callbacks,
                 calls, history>>

\* Lines 220-228: the next callback that is not null, in the order initial metadata,
\* message, trailing metadata.
CancelStreamContinue(t, f, rest) ==
  IF "im" \in rest /\ f.im # 0 THEN SetTop(t, [f EXCEPT !.pc = "invoke_im", !.wr = {}])
  ELSE IF "msg" \in rest /\ f.msg # 0 THEN SetTop(t, [f EXCEPT !.pc = "invoke_msg", !.wr = {}])
  ELSE IF "tm" \in rest /\ f.tm # 0 THEN SetTop(t, [f EXCEPT !.pc = "invoke_tm", !.wr = {}])
  ELSE Return(t)

CancelStream_Unlock(t) ==
  /\ At(t, "CancelStream", "unlock")
  /\ m_ = t
  /\ m_' = 0
  /\ stack' = CancelStreamContinue(t, Top(t), {"im", "msg", "tm"})
  /\ UNCHANGED <<is_client_, maps, aborted, callbacks, calls, history>>

CancelStream_InvokeInitialMetadata(t) ==
  /\ At(t, "CancelStream", "invoke_im")
  /\ callbacks' = Invoked(Top(t).im, Top(t).val, t, "cancel_stream")
  /\ stack' = SetTop(t, [Top(t) EXCEPT !.pc = "in_cb_im"])
  /\ UNCHANGED <<is_client_, maps, m_, aborted, calls, history>>

CancelStream_InitialMetadataReturn(t) ==
  /\ At(t, "CancelStream", "in_cb_im")
  /\ stack' = CancelStreamContinue(t, Top(t), {"msg", "tm"})
  /\ UNCHANGED <<is_client_, maps, m_, aborted, callbacks, calls, history>>

CancelStream_InvokeMessage(t) ==
  /\ At(t, "CancelStream", "invoke_msg")
  /\ callbacks' = Invoked(Top(t).msg, Top(t).val, t, "cancel_stream")
  /\ stack' = SetTop(t, [Top(t) EXCEPT !.pc = "in_cb_msg"])
  /\ UNCHANGED <<is_client_, maps, m_, aborted, calls, history>>

CancelStream_MessageReturn(t) ==
  /\ At(t, "CancelStream", "in_cb_msg")
  /\ stack' = CancelStreamContinue(t, Top(t), {"tm"})
  /\ UNCHANGED <<is_client_, maps, m_, aborted, callbacks, calls, history>>

CancelStream_InvokeTrailingMetadata(t) ==
  /\ At(t, "CancelStream", "invoke_tm")
  /\ callbacks' = Invoked(Top(t).tm, WithStatus(Top(t).val, 0), t, "cancel_stream")
  /\ stack' = SetTop(t, [Top(t) EXCEPT !.pc = "in_cb_tm"])
  /\ UNCHANGED <<is_client_, maps, m_, aborted, calls, history>>

CancelStream_TrailingMetadataReturn(t) ==
  /\ At(t, "CancelStream", "in_cb_tm")
  /\ stack' = Return(t)
  /\ UNCHANGED <<is_client_, maps, m_, aborted, callbacks, calls, history>>

\* ---- Clear
Clear(t, id) ==
  /\ CanCall(t)
  /\ stack' = Enter(t, Frame("Clear", id, 0, NoValue))
  /\ calls' = calls + 1
  /\ UNCHANGED <<is_client_, maps, m_, aborted, callbacks, history>>

\* A Clear that forgets recv_message_cancelled_.
Clear_Locked_KeepsMarker(t) ==
  /\ At(t, "Clear", "lock")
  /\ m_ = 0
  /\ m_' = t
  /\ LET f == Top(t) IN
       /\ initial_metadata_cbs_' = Erase(initial_metadata_cbs_, f.id)
       /\ message_cbs_' = Erase(message_cbs_, f.id)
       /\ trailing_metadata_cbs_' = Erase(trailing_metadata_cbs_, f.id)
       /\ pending_initial_metadata_' = Erase(pending_initial_metadata_, f.id)
       /\ pending_message_' = Erase(pending_message_, f.id)
       /\ pending_trailing_metadata_' = Erase(pending_trailing_metadata_, f.id)
       /\ stack' = SetTop(t, [f EXCEPT !.pc = "unlock",
                                       !.wr = {ch \in {"im", "msg", "tm"} : Has(CbMap(ch), f.id)}])
       /\ notified' = [notified EXCEPT ![f.id] = <<>>]
       /\ notified_md' = [notified_md EXCEPT ![f.id] = [im |-> <<>>, tm |-> <<>>]]
       /\ matched' = [matched EXCEPT ![f.id] = <<>>]
       /\ tm_at' = [tm_at EXCEPT ![f.id] = -1]
       /\ cleared' = [cleared EXCEPT ![f.id] =
                       IF f.id \in recv_message_cancelled_ \/ Has(pending_message_, f.id)
                       THEN "stale" ELSE "empty"]
  /\ UNCHANGED <<is_client_, recv_message_cancelled_, aborted, callbacks, calls, accepted>>

\* A Clear that empties the message queues of every stream.
Clear_Locked_EveryStream(t) ==
  /\ At(t, "Clear", "lock")
  /\ m_ = 0
  /\ m_' = t
  /\ LET f == Top(t) IN
       /\ initial_metadata_cbs_' = Erase(initial_metadata_cbs_, f.id)
       /\ message_cbs_' = Erase(message_cbs_, f.id)
       /\ trailing_metadata_cbs_' = Erase(trailing_metadata_cbs_, f.id)
       /\ recv_message_cancelled_' = recv_message_cancelled_ \ {f.id}
       /\ pending_initial_metadata_' = Erase(pending_initial_metadata_, f.id)
       /\ pending_message_' = EmptyMap
       /\ pending_trailing_metadata_' = Erase(pending_trailing_metadata_, f.id)
       /\ stack' = SetTop(t, [f EXCEPT !.pc = "unlock",
                                       !.wr = {ch \in {"im", "msg", "tm"} : Has(CbMap(ch), f.id)}])
       /\ notified' = [notified EXCEPT ![f.id] = <<>>]
       /\ notified_md' = [notified_md EXCEPT ![f.id] = [im |-> <<>>, tm |-> <<>>]]
       /\ matched' = [matched EXCEPT ![f.id] = <<>>]
       /\ tm_at' = [tm_at EXCEPT ![f.id] = -1]
       /\ cleared' = [cleared EXCEPT ![f.id] =
                       IF f.id \in recv_message_cancelled_ \/ Has(pending_message_, f.id)
                       THEN "stale" ELSE "empty"]
  /\ UNCHANGED <<is_client_, aborted, callbacks, calls, accepted>>

Clear_Locked(t) ==
  /\ At(t, "Clear", "lock")
  /\ m_ = 0
  /\ m_' = t
  /\ LET f == Top(t) IN
       /\ initial_metadata_cbs_' = Erase(initial_metadata_cbs_, f.id)
       /\ message_cbs_' = Erase(message_cbs_, f.id)
       /\ trailing_metadata_cbs_' = Erase(trailing_metadata_cbs_, f.id)
       /\ recv_message_cancelled_' = recv_message_cancelled_ \ {f.id}
       /\ pending_initial_metadata_' = Erase(pending_initial_metadata_, f.id)
       /\ pending_message_' = Erase(pending_message_, f.id)
       /\ pending_trailing_metadata_' = Erase(pending_trailing_metadata_, f.id)
       /\ stack' = SetTop(t, [f EXCEPT !.pc = "unlock",
                                       !.wr = {ch \in {"im", "msg", "tm"} : Has(CbMap(ch), f.id)}])
       /\ notified' = [notified EXCEPT ![f.id] = <<>>]
       /\ notified_md' = [notified_md EXCEPT ![f.id] = [im |-> <<>>, tm |-> <<>>]]
       /\ matched' = [matched EXCEPT ![f.id] = <<>>]
       /\ tm_at' = [tm_at EXCEPT ![f.id] = -1]
       /\ cleared' = [cleared EXCEPT ![f.id] =
                       IF f.id \in recv_message_cancelled_ \/ Has(pending_message_, f.id)
                       THEN "stale" ELSE "empty"]
  /\ UNCHANGED <<is_client_, aborted, callbacks, calls, accepted>>

Clear_Unlock(t) ==
  /\ At(t, "Clear", "unlock")
  /\ m_ = t
  /\ m_' = 0
  /\ stack' = Return(t)
  /\ UNCHANGED <<is_client_, maps, aborted, callbacks, calls, history>>

\* Every step of a call in progress on thread t.
Step(t) ==
  \/ RegisterRecvInitialMetadata_Locked(t)
  \/ RegisterRecvInitialMetadata_Unlock(t)
  \/ RegisterRecvInitialMetadata_Invoke(t)
  \/ RegisterRecvInitialMetadata_Return(t)
  \/ RegisterRecvMessage_Locked(t)
  \/ RegisterRecvMessage_CancelledReturn(t)
  \/ RegisterRecvMessage_Unlock(t)
  \/ RegisterRecvMessage_Invoke(t)
  \/ RegisterRecvMessage_Return(t)
  \/ RegisterRecvTrailingMetadata_Locked(t)
  \/ RegisterRecvTrailingMetadata_Unlock(t)
  \/ RegisterRecvTrailingMetadata_Invoke(t)
  \/ RegisterRecvTrailingMetadata_Return(t)
  \/ NotifyRecvInitialMetadata_Locked(t)
  \/ NotifyRecvInitialMetadata_Unlock(t)
  \/ NotifyRecvInitialMetadata_Invoke(t)
  \/ NotifyRecvInitialMetadata_Return(t)
  \/ NotifyRecvMessage_Locked(t)
  \/ NotifyRecvMessage_Unlock(t)
  \/ NotifyRecvMessage_Invoke(t)
  \/ NotifyRecvMessage_Return(t)
  \/ CancelRecvMessageCallbacksDueToTrailingMetadata_Locked(t)
  \/ CancelRecvMessageCallbacksDueToTrailingMetadata_Unlock(t)
  \/ CancelRecvMessageCallbacksDueToTrailingMetadata_Invoke(t)
  \/ CancelRecvMessageCallbacksDueToTrailingMetadata_Return(t)
  \/ NotifyRecvTrailingMetadata_Locked(t)
  \/ NotifyRecvTrailingMetadata_Unlock(t)
  \/ NotifyRecvTrailingMetadata_Invoke(t)
  \/ NotifyRecvTrailingMetadata_Return(t)
  \/ CancelStream_Locked(t)
  \/ CancelStream_Unlock(t)
  \/ CancelStream_InvokeInitialMetadata(t)
  \/ CancelStream_InitialMetadataReturn(t)
  \/ CancelStream_InvokeMessage(t)
  \/ CancelStream_MessageReturn(t)
  \/ CancelStream_InvokeTrailingMetadata(t)
  \/ CancelStream_TrailingMetadataReturn(t)
  \/ Clear_Locked(t)
  \/ Clear_Unlock(t)

\* The callers: any thread, any operation, any stream, up to MaxCalls calls.
Next ==
  \E t \in Threads :
    \/ /\ calls < MaxCalls
       /\ \E id \in Streams :
            \/ RegisterRecvInitialMetadata(t, id)
            \/ RegisterRecvMessage(t, id)
            \/ RegisterRecvTrailingMetadata(t, id)
            \/ \E v \in Results : NotifyRecvInitialMetadata(t, id, v)
            \/ \E v \in Results : NotifyRecvMessage(t, id, v)
            \/ \E v \in Results, s \in StatusCodes : NotifyRecvTrailingMetadata(t, id, v, s)
            \/ \E e \in CancelErrors : CancelStream(t, id, e)
            \/ Clear(t, id)
    \/ Step(t)

Spec == Init /\ [][Next]_vars

\* ======================================================================
\* Properties
\* ======================================================================

\* The calls that hold callback cb in a local variable and have yet to invoke it.
HeldFor(cb) ==
  {x \in LiveFrames :
     LET f == FrameAt(x) IN
       \/ f.cb = cb /\ f.pc \in {"lock", "unlock", "invoke"}
       \/ f.hcb = cb /\ f.pc \in {"c_unlock", "c_invoke"}
       \/ f.im = cb /\ f.pc \in {"unlock", "invoke_im"}
       \/ f.msg = cb /\ f.pc \in {"unlock", "invoke_im", "in_cb_im", "invoke_msg"}
       \/ f.tm = cb /\ f.pc \in {"unlock", "invoke_im", "in_cb_im", "invoke_msg",
                                 "in_cb_msg", "invoke_tm"}}
Stored(cb) == Get(CbMap(callbacks[cb].ch), callbacks[cb].id) = cb
WasInvoked(cb) == callbacks[cb].inv # <<>>

\* C1: under every interleaving of the eight operations a registered callback is in
\* at most one place: stored in its slot, or taken out of it by exactly one call that
\* is about to invoke it, or invoked, once.  So no callback is invoked twice, none is
\* resolved with two values, and none is invoked by both a notify and a cancellation.
C1_AtMostOnce ==
  \A cb \in DOMAIN callbacks :
    Cardinality(HeldFor(cb)) + (IF Stored(cb) THEN 1 ELSE 0) + Len(callbacks[cb].inv) <= 1

\* A NotifyRecvMessage has taken the stored callback and not yet invoked it, while a
\* CancelStream of the same stream has run its critical section and found no message
\* callback to cancel.
C1_Witness ==
  \E x \in LiveFrames, y \in LiveFrames :
    /\ FrameAt(x).op = "NotifyRecvMessage"
    /\ FrameAt(x).pc = "invoke"
    /\ FrameAt(y).op = "CancelStream"
    /\ FrameAt(y).id = FrameAt(x).id
    /\ FrameAt(y).pc = "unlock"
    /\ FrameAt(y).msg = 0

\* C3 (as claimed): every callback invocation happens with m_ released by the
\* invoking thread.  RegisterRecvMessage breaks it on line 67.
C3_InvokedAfterUnlock ==
  \A cb \in DOMAIN callbacks :
    \A i \in 1..Len(callbacks[cb].inv) : ~callbacks[cb].inv[i].locked


\* ---- The message channel alone, followed further: one stream, the message
\* operations, the trailing-metadata notify and CancelStream, MaxMessageCalls calls.
MaxMessageCalls == 6

MessageStep(t) ==
  \/ RegisterRecvMessage_Locked(t)
  \/ RegisterRecvMessage_CancelledReturn(t)
  \/ RegisterRecvMessage_Unlock(t)
  \/ RegisterRecvMessage_Invoke(t)
  \/ RegisterRecvMessage_Return(t)
  \/ NotifyRecvMessage_Locked(t)
  \/ NotifyRecvMessage_Unlock(t)
  \/ NotifyRecvMessage_Invoke(t)
  \/ NotifyRecvMessage_Return(t)
  \/ CancelRecvMessageCallbacksDueToTrailingMetadata_Locked(t)
  \/ CancelRecvMessageCallbacksDueToTrailingMetadata_Unlock(t)
  \/ CancelRecvMessageCallbacksDueToTrailingMetadata_Invoke(t)
  \/ CancelRecvMessageCallbacksDueToTrailingMetadata_Return(t)
  \/ NotifyRecvTrailingMetadata_Locked(t)
  \/ NotifyRecvTrailingMetadata_Unlock(t)
  \/ CancelStream_Locked(t)
  \/ CancelStream_Unlock(t)
  \/ CancelStream_InvokeMessage(t)
  \/ CancelStream_MessageReturn(t)

MessageNext ==
  \E t \in Threads :
    \/ /\ calls < MaxMessageCalls
       /\ \E id \in {1} :
            \/ RegisterRecvMessage(t, id)
            \/ \E v \in Results : NotifyRecvMessage(t, id, v)
            \/ NotifyRecvTrailingMetadata(t, id, TransportError, 0)
            \/ \E e \in CancelErrors : CancelStream(t, id, e)
    \/ MessageStep(t)

MessageInit == Init /\ is_client_

MessageSpec == MessageInit /\ [][MessageNext]_vars

\* The values of a sequence of <<callback, value>> pairs.
Values(ms) == [k \in 1..Len(ms) |-> ms[k][2]]

\* C2: message FIFO.  Since the last Clear of stream s the k-th match made on s is
\* of the k-th value notified for s; the callbacks are matched in the order of their
\* registration; a callback that is given a value (not a cancellation) is given the
\* value it was matched with; and what is buffered is the rest of the notified
\* values, in their order.
C2_MessageFifo ==
  \A s \in Streams :
    /\ Len(matched[s]) <= Len(notified[s])
    /\ Values(matched[s]) = SubSeq(notified[s], 1, Len(matched[s]))
    /\ \A j, k \in 1..Len(matched[s]) : j < k => matched[s][j][1] < matched[s][k][1]
    /\ \A k \in 1..Len(matched[s]) :
         \A i \in 1..Len(callbacks[matched[s][k][1]].inv) :
           callbacks[matched[s][k][1]].inv[i].by \in {"register", "notify"}
             => callbacks[matched[s][k][1]].inv[i].val = matched[s][k][2]
    /\ (IF Has(pending_message_, s) THEN pending_message_[s] ELSE <<>>)
         = SubSeq(notified[s], Len(matched[s]) + 1, Len(notified[s]))

\* Three notifies N1, N2, N3 (not all equal) were buffered and the three registrations
\* that followed were invoked with N1, N2, N3, in that order.
C2_Witness ==
  \E s \in Streams :
    /\ Len(notified[s]) = 3
    /\ notified[s][1] # notified[s][2]
    /\ notified[s][2] # notified[s][3]
    /\ Len(matched[s]) = 3
    /\ \A k \in 1..3 :
         /\ matched[s][k][1] > 3
         /\ callbacks[matched[s][k][1]].inv =
              <<[val |-> notified[s][k], locked |-> FALSE, by |-> "register"]>>


\* C4: cancellation propagation.  Once the trailing metadata of stream s has taken
\* effect (the first critical section of NotifyRecvTrailingMetadata has run) and no
\* Clear(s) has followed, a RegisterRecvMessage(s, cb) that finds no buffered message
\* invokes cb in that very step with the graceful-cancellation error and does not
\* store it.
C4_CancellationPropagation ==
  [][\A t \in Threads :
       (/\ At(t, "RegisterRecvMessage", "lock")
        /\ m_' = t
        /\ tm_at[Top(t).id] >= 0
        /\ ~Has(pending_message_, Top(t).id))
       => /\ Len(callbacks'[Top(t).cb].inv) = 1
          /\ callbacks'[Top(t).cb].inv[1].val = kGrpcBinderTransportCancelledGracefully
          /\ message_cbs_' = message_cbs_]_vars

\* A message callback registered after the trailing metadata was invoked by its
\* RegisterRecvMessage with the cancellation, and is not stored.
C4_Witness ==
  \E cb \in DOMAIN callbacks :
    /\ callbacks[cb].ch = "msg"
    /\ tm_at[callbacks[cb].id] >= 0
    /\ Len(callbacks[cb].inv) = 1
    /\ callbacks[cb].inv[1].by = "register_cancelled"
    /\ callbacks[cb].inv[1].val = kGrpcBinderTransportCancelledGracefully
    /\ ~Stored(cb)

\* C5: buffered-before-cancel preservation.  A RegisterRecvMessage that finds a
\* buffered message takes the oldest one, whether or not the stream is marked
\* cancelled, and invokes nothing with a cancellation; and no step of
\* NotifyRecvTrailingMetadata changes the buffered messages.
C5_BufferedBeforeCancel ==
  [][\A t \in Threads :
       /\ (/\ At(t, "RegisterRecvMessage", "lock")
           /\ m_' = t
           /\ Has(pending_message_, Top(t).id))
          => /\ Top(t)'.val = Head(pending_message_[Top(t).id])
             /\ Top(t)'.cb = Top(t).cb
             /\ Top(t)'.pc = "unlock"
             /\ pending_message_' = PopFront(pending_message_, Top(t).id)
             /\ callbacks' = callbacks
       /\ (/\ At(t, "RegisterRecvMessage", "lock")
           /\ m_' = t
           /\ callbacks' # callbacks)
          => ~Has(pending_message_, Top(t).id)
       /\ (/\ stack[t] # <<>>
           /\ Top(t).op = "NotifyRecvTrailingMetadata"
           /\ stack'[t] # stack[t])
          => pending_message_' = pending_message_]_vars

\* A message notified before the trailing metadata was delivered to a callback
\* registered after it, on a stream that is marked cancelled.
C5_Witness ==
  \E cb \in DOMAIN callbacks :
    /\ callbacks[cb].ch = "msg"
    /\ callbacks[cb].id \in recv_message_cancelled_
    /\ tm_at[callbacks[cb].id] >= 1
    /\ Len(callbacks[cb].inv) = 1
    /\ callbacks[cb].inv[1].by = "register"
    /\ callbacks[cb].inv[1].val = notified[callbacks[cb].id][1]


\* C6 (as claimed): whenever the trailing-metadata callback of stream s has been
\* invoked with a notified value, every message notified for s before the trailing
\* metadata has been matched to a message callback: none is still buffered.
C6_TrailingAfterAllMessages ==
  \A cb \in DOMAIN callbacks :
    (/\ callbacks[cb].ch = "tm"
     /\ WasInvoked(cb)
     /\ callbacks[cb].inv[1].by \in {"notify", "register"}
     /\ tm_at[callbacks[cb].id] >= 0
     /\ Has(pending_message_, callbacks[cb].id))
    => Len(matched[callbacks[cb].id]) >= tm_at[callbacks[cb].id]

\* C6 (amended): NotifyRecvTrailingMetadata matches or buffers its result, and so
\* the trailing-metadata callback is invoked, only after the message callback that
\* was waiting on the stream (if any) has been invoked, outside the lock, with the
\* graceful-cancellation error.
C6_TrailingAfterWaitingCallback ==
  \A x \in LiveFrames :
    (/\ FrameAt(x).op = "NotifyRecvTrailingMetadata"
     /\ FrameAt(x).pc \in {"lock", "unlock", "invoke", "in_cb"}
     /\ FrameAt(x).hcb # 0)
    => callbacks[FrameAt(x).hcb].inv =
         <<[val |-> kGrpcBinderTransportCancelledGracefully, locked |-> FALSE,
            by |-> "tm_cancel"]>>

\* A NotifyRecvTrailingMetadata cancelled a waiting message callback and is now
\* running the trailing-metadata callback.
C6_Witness ==
  \E x \in LiveFrames :
    /\ FrameAt(x).op = "NotifyRecvTrailingMetadata"
    /\ FrameAt(x).pc = "in_cb"
    /\ FrameAt(x).hcb # 0
    /\ FrameAt(x).cb # 0
    /\ WasInvoked(FrameAt(x).hcb)
    /\ WasInvoked(FrameAt(x).cb)


\* ---- Registrations and CancelStream alone, followed further: one stream,
\* MaxCancelCalls calls.
MaxCancelCalls == 5

CancelStep(t) ==
  \/ RegisterRecvInitialMetadata_Locked(t)
  \/ RegisterRecvInitialMetadata_Unlock(t)
  \/ RegisterRecvMessage_Locked(t)
  \/ RegisterRecvMessage_Unlock(t)
  \/ RegisterRecvTrailingMetadata_Locked(t)
  \/ RegisterRecvTrailingMetadata_Unlock(t)
  \/ CancelStream_Locked(t)
  \/ CancelStream_Unlock(t)
  \/ CancelStream_InvokeInitialMetadata(t)
  \/ CancelStream_InitialMetadataReturn(t)
  \/ CancelStream_InvokeMessage(t)
  \/ CancelStream_MessageReturn(t)
  \/ CancelStream_InvokeTrailingMetadata(t)
  \/ CancelStream_TrailingMetadataReturn(t)

CancelNext ==
  \E t \in Threads :
    \/ /\ calls < MaxCancelCalls
       /\ \E id \in {1} :
            \/ RegisterRecvInitialMetadata(t, id)
            \/ RegisterRecvMessage(t, id)
            \/ RegisterRecvTrailingMetadata(t, id)
            \/ \E e \in CancelErrors : CancelStream(t, id, e)
    \/ CancelStep(t)

CancelSpec == MessageInit /\ [][CancelNext]_vars

Channels == {"im", "msg", "tm"}
PendingMap(ch) == CASE ch = "im" -> pending_initial_metadata_
                    [] ch = "msg" -> pending_message_
                    [] ch = "tm" -> pending_trailing_metadata_
\* The callback a CancelStream frame took from channel ch (0: none).
Taken(f, ch) == CASE ch = "im" -> f.im [] ch = "msg" -> f.msg [] ch = "tm" -> f.tm
\* What CancelStream passes to the callback of channel ch.
CancelValue(f, ch) == IF ch = "tm" THEN WithStatus(f.val, 0) ELSE f.val
\* Thread t runs the critical section of op.
Locks(t, op) == At(t, op, "lock") /\ m_' = t
\* The innermost call of thread t is an op, and it returns.
Returns(t, op) ==
  /\ stack[t] # <<>>
  /\ Top(t).op = op
  /\ Len(stack'[t]) < Len(stack[t])
\* The innermost call of thread t is an op, and it takes a step of its own.
Steps(t, op) ==
  /\ stack[t] # <<>>
  /\ Top(t).op = op
  /\ stack'[t] # stack[t]
  /\ Len(stack'[t]) <= Len(stack[t])

\* The critical section of CancelStream(s, err) takes every callback stored for s
\* out of the three slots, and leaves none stored for s.
C8_Removes(t) ==
  Locks(t, "CancelStream") =>
    /\ \A ch \in Channels :
         /\ Taken(Top(t)', ch) = Get(CbMap(ch), Top(t).id)
         /\ ~Has(CbMap(ch)', Top(t).id)
    /\ callbacks' = callbacks
\* CancelStream invokes only callbacks it took, and when it returns each of them has
\* been invoked exactly once, with err (and status 0 on the trailing channel).
C8_Invokes(t) ==
  /\ Steps(t, "CancelStream") =>
       \A cb \in DOMAIN callbacks :
         callbacks'[cb] # callbacks[cb] => cb \in {Taken(Top(t), ch) : ch \in Channels}
  /\ Returns(t, "CancelStream") =>
       \A ch \in Channels :
         Taken(Top(t), ch) # 0 =>
           callbacks[Taken(Top(t), ch)].inv =
             <<[val |-> CancelValue(Top(t), ch), locked |-> FALSE, by |-> "cancel_stream"]>>
\* When CancelStream(s, err) returns no callback is stored for s.
C8_NoneStoredAtReturn(t) ==
  Returns(t, "CancelStream") => \A ch \in Channels : ~Has(CbMap(ch), Top(t).id)

\* C8 (as claimed): CancelStream removes every stored callback of the stream in one
\* step, invokes each exactly once with err, invokes nothing else, and when it
\* returns no callback is stored for the stream.
C8_CancelStreamLeavesNone ==
  [][\A t \in Threads : C8_Removes(t) /\ C8_Invokes(t) /\ C8_NoneStoredAtReturn(t)]_vars

\* C8 (amended): as claimed, except that no callback is stored for the stream at the
\* end of the critical section, not at the return: a callback registered in between
\* can be stored when CancelStream returns.
C8_CancelStream ==
  [][\A t \in Threads : C8_Removes(t) /\ C8_Invokes(t)]_vars

\* A CancelStream took a callback from each of the three channels and has invoked
\* all three.
C8_Witness ==
  \E x \in LiveFrames :
    /\ FrameAt(x).op = "CancelStream"
    /\ FrameAt(x).pc = "in_cb_tm"
    /\ \A ch \in Channels :
         /\ Taken(FrameAt(x), ch) # 0
         /\ Len(callbacks[Taken(FrameAt(x), ch)].inv) = 1


Untouched == <<pending_initial_metadata_, pending_message_, pending_trailing_metadata_,
               recv_message_cancelled_>>

\* C9: no step of CancelStream changes a pending queue or the cancellation marker of
\* any stream.  So a registration that follows still drains what is buffered (C5), and
\* a RegisterRecvMessage that finds no buffered message on a stream whose trailing
\* metadata has not been notified is stored, and invoked with nothing.  A Register*
\* that finds a buffered result takes the oldest one for its callback and stores nothing.
C9_CancelStreamFrame ==
  [][\A t \in Threads :
       /\ Steps(t, "CancelStream") => UNCHANGED Untouched
       /\ \A ch \in Channels :
            (Locks(t, RegisterOps[ch]) /\ Has(PendingMap(ch), Top(t).id))
            => /\ Top(t)'.val = Head(PendingMap(ch)[Top(t).id])
               /\ Top(t)'.cb = Top(t).cb
               /\ CbMap(ch)' = CbMap(ch)
       /\ (/\ Locks(t, "RegisterRecvMessage")
           /\ ~Has(pending_message_, Top(t).id)
           /\ tm_at[Top(t).id] = -1)
          => /\ message_cbs_' = Put(message_cbs_, Top(t).id, Top(t).cb)
             /\ callbacks' = callbacks]_vars

\* A message callback was cancelled by CancelStream; a message callback registered
\* on the same stream after it is stored, waiting.
C9_Witness ==
  \E c1 \in DOMAIN callbacks, c2 \in DOMAIN callbacks :
    /\ c1 < c2
    /\ callbacks[c1].ch = "msg"
    /\ callbacks[c2].ch = "msg"
    /\ callbacks[c1].id = callbacks[c2].id
    /\ Len(callbacks[c1].inv) = 1
    /\ callbacks[c1].inv[1].by = "cancel_stream"
    /\ Stored(c2)
    /\ callbacks[c2].inv = <<>>

\* C10: the critical section of Clear(s) leaves nothing of s in the three callback
\* slots, the three pending queues and the cancellation marker; Clear invokes no
\* callback; and a RegisterRecvMessage(s, cb) that is the first to touch s after a
\* Clear is stored, invoked with nothing and given nothing.
C10_Clear ==
  [][\A t \in Threads :
       /\ Locks(t, "Clear")
          => /\ \A ch \in Channels :
                  ~Has(CbMap(ch)', Top(t).id) /\ ~Has(PendingMap(ch)', Top(t).id)
             /\ Top(t).id \notin recv_message_cancelled_'
       /\ Steps(t, "Clear") => callbacks' = callbacks
       /\ (Locks(t, "RegisterRecvMessage") /\ cleared[Top(t).id] \in {"stale", "empty"})
          => /\ message_cbs_' = Put(message_cbs_, Top(t).id, Top(t).cb)
             /\ callbacks' = callbacks
             /\ Top(t)'.val = NoValue]_vars

\* Clear erased a cancellation marker or buffered messages of a stream, and the
\* RegisterRecvMessage that followed on the stream stored its callback.
C10_Witness ==
  \E s \in Streams :
    /\ cleared[s] = "stale_reg"
    /\ Has(message_cbs_, s)
    /\ callbacks[message_cbs_[s]].inv = <<>>


\* ---- C7: liveness.  One stream that is never Cleared; the callers make at most
\* MaxLiveCalls calls of their own choice, and, as the environment's part, go on to
\* issue CancelStream for as long as a callback is stored for the stream.
MaxLiveCalls == 3

LiveStep(t) ==
  \/ RegisterRecvInitialMetadata_Locked(t)
  \/ RegisterRecvInitialMetadata_Unlock(t)
  \/ RegisterRecvInitialMetadata_Invoke(t)
  \/ RegisterRecvInitialMetadata_Return(t)
  \/ RegisterRecvMessage_Locked(t)
  \/ RegisterRecvMessage_CancelledReturn(t)
  \/ RegisterRecvMessage_Unlock(t)
  \/ RegisterRecvMessage_Invoke(t)
  \/ RegisterRecvMessage_Return(t)
  \/ RegisterRecvTrailingMetadata_Locked(t)
  \/ RegisterRecvTrailingMetadata_Unlock(t)
  \/ RegisterRecvTrailingMetadata_Invoke(t)
  \/ RegisterRecvTrailingMetadata_Return(t)
  \/ NotifyRecvInitialMetadata_Locked(t)
  \/ NotifyRecvInitialMetadata_Unlock(t)
  \/ NotifyRecvInitialMetadata_Invoke(t)
  \/ NotifyRecvInitialMetadata_Return(t)
  \/ NotifyRecvMessage_Locked(t)
  \/ NotifyRecvMessage_Unlock(t)
  \/ NotifyRecvMessage_Invoke(t)
  \/ NotifyRecvMessage_Return(t)
  \/ CancelRecvMessageCallbacksDueToTrailingMetadata_Locked(t)
  \/ CancelRecvMessageCallbacksDueToTrailingMetadata_Unlock(t)
  \/ CancelRecvMessageCallbacksDueToTrailingMetadata_Invoke(t)
  \/ CancelRecvMessageCallbacksDueToTrailingMetadata_Return(t)
  \/ NotifyRecvTrailingMetadata_Locked(t)
  \/ NotifyRecvTrailingMetadata_Unlock(t)
  \/ NotifyRecvTrailingMetadata_Invoke(t)
  \/ NotifyRecvTrailingMetadata_Return(t)
  \/ CancelStream_Locked(t)
  \/ CancelStream_Unlock(t)
  \/ CancelStream_InvokeInitialMetadata(t)
  \/ CancelStream_InitialMetadataReturn(t)
  \/ CancelStream_InvokeMessage(t)
  \/ CancelStream_MessageReturn(t)
  \/ CancelStream_InvokeTrailingMetadata(t)
  \/ CancelStream_TrailingMetadataReturn(t)

\* The caller eventually issues CancelStream(S) while a callback is stored for S.
LiveCancel(t) ==
  /\ \E ch \in Channels : Has(CbMap(ch), 1)
  /\ \E e \in CancelErrors : CancelStream(t, 1, e)

LiveNext ==
  \E t \in Threads :
    \/ /\ calls < MaxLiveCalls
       /\ \E id \in {1} :
            \/ RegisterRecvInitialMetadata(t, id)
            \/ RegisterRecvMessage(t, id)
            \/ RegisterRecvTrailingMetadata(t, id)
            \/ \E v \in Results : NotifyRecvInitialMetadata(t, id, v)
            \/ \E v \in Results : NotifyRecvMessage(t, id, v)
            \/ \E v \in Results, s \in StatusCodes : NotifyRecvTrailingMetadata(t, id, v, s)
    \/ LiveCancel(t)
    \/ LiveStep(t)

\* Every thread that can take a step of the call it is in eventually takes one; the
\* CancelStream the environment owes to a stored callback is eventually issued.
LiveFairness ==
  /\ \A t \in Threads : SF_vars(LiveStep(t))
  /\ SF_vars(\E t \in Threads : LiveCancel(t))

LiveSpec == MessageInit /\ [][LiveNext]_vars /\ LiveFairness

\* C7: a callback that is stored for the stream is eventually invoked (or the process
\* has stopped on a failed GPR_ASSERT).
IsStored(cb) == IF cb \in DOMAIN callbacks THEN Stored(cb) ELSE FALSE
IsResolved(cb) == IF cb \in DOMAIN callbacks THEN WasInvoked(cb) \/ aborted ELSE FALSE
C7_EventuallyInvoked ==
  \A cb \in 1..MaxLiveCalls : [](IsStored(cb) => <>IsResolved(cb))


\* ---- C11: the accept-stream signal fires at most once per stream on a server-role
\* receiver, and never on a client-role receiver.  (accept_stream_callback_ is taken
\* to be set; accepted counts its invocations per stream.)
C11_AcceptOnce ==
  \A s \in Streams : accepted[s] <= (IF is_client_ THEN 0 ELSE 1)


\* ---- C12: for each stream and each event type, the pending queue and the callback
\* slot are never both non-empty; a pending queue that is present holds a value.
C12_QueueOrSlot ==
  \A s \in Streams, ch \in Channels :
    /\ ~(Has(CbMap(ch), s) /\ Has(PendingMap(ch), s))
    /\ Has(PendingMap(ch), s) => PendingMap(ch)[s] # <<>>

\* With the lock free and no call in progress, one channel of a stream holds a
\* buffered value and another channel of the same stream holds a stored callback.
C12_Witness ==
  /\ m_ = 0
  /\ \A t \in Threads : stack[t] = <<>>
  /\ \E s \in Streams, ch1 \in Channels, ch2 \in Channels :
       Has(PendingMap(ch1), s) /\ Has(CbMap(ch2), s)


\* ---- C13: order independence.  One caller thread, registrations and notifies only,
\* on two streams.
MaxOrderCalls == 4

OrderStep(t) ==
  \/ RegisterRecvInitialMetadata_Locked(t)
  \/ RegisterRecvInitialMetadata_Unlock(t)
  \/ RegisterRecvInitialMetadata_Invoke(t)
  \/ RegisterRecvInitialMetadata_Return(t)
  \/ RegisterRecvMessage_Locked(t)
  \/ RegisterRecvMessage_CancelledReturn(t)
  \/ RegisterRecvMessage_Unlock(t)
  \/ RegisterRecvMessage_Invoke(t)
  \/ RegisterRecvMessage_Return(t)
  \/ RegisterRecvTrailingMetadata_Locked(t)
  \/ RegisterRecvTrailingMetadata_Unlock(t)
  \/ RegisterRecvTrailingMetadata_Invoke(t)
  \/ RegisterRecvTrailingMetadata_Return(t)
  \/ NotifyRecvInitialMetadata_Locked(t)
  \/ NotifyRecvInitialMetadata_Unlock(t)
  \/ NotifyRecvInitialMetadata_Invoke(t)
  \/ NotifyRecvInitialMetadata_Return(t)
  \/ NotifyRecvMessage_Locked(t)
  \/ NotifyRecvMessage_Unlock(t)
  \/ NotifyRecvMessage_Invoke(t)
  \/ NotifyRecvMessage_Return(t)
  \/ CancelRecvMessageCallbacksDueToTrailingMetadata_Locked(t)
  \/ CancelRecvMessageCallbacksDueToTrailingMetadata_Unlock(t)
  \/ CancelRecvMessageCallbacksDueToTrailingMetadata_Invoke(t)
  \/ CancelRecvMessageCallbacksDueToTrailingMetadata_Return(t)
  \/ NotifyRecvTrailingMetadata_Locked(t)
  \/ NotifyRecvTrailingMetadata_Unlock(t)
  \/ NotifyRecvTrailingMetadata_Invoke(t)
  \/ NotifyRecvTrailingMetadata_Return(t)

OrderNext ==
  \E t \in {1} :
    \/ /\ calls < MaxOrderCalls
       /\ \E id \in Streams :
            \/ RegisterRecvInitialMetadata(t, id)
            \/ RegisterRecvMessage(t, id)
            \/ RegisterRecvTrailingMetadata(t, id)
            \/ \E v \in Results : NotifyRecvInitialMetadata(t, id, v)
            \/ \E v \in Results : NotifyRecvMessage(t, id, v)
            \/ \E v \in Results, s \in StatusCodes : NotifyRecvTrailingMetadata(t, id, v, s)
    \/ OrderStep(t)

OrderSpec == Init /\ [][OrderNext]_vars

\* The values notified on channel ch of stream s since its last Clear.
Sent(s, ch) == IF ch = "msg" THEN notified[s] ELSE notified_md[s][ch]

\* All that happened on stream s is one registration, of cb, and one notify on cb's
\* channel, and both calls have returned.
OneRegisterOneNotify(s, cb) ==
  /\ callbacks[cb].id = s
  /\ \A c \in DOMAIN callbacks : callbacks[c].id = s => c = cb
  /\ \A ch \in Channels : Len(Sent(s, ch)) = (IF ch = callbacks[cb].ch THEN 1 ELSE 0)
  /\ \A x \in LiveFrames : FrameAt(x).id # s

\* C13: after Register(s, cb) and Notify(s, v) on a fresh stream, in either order, cb
\* has been invoked exactly once, with v (and the status code, for trailing metadata),
\* and the channel holds neither a callback nor a buffered value.
C13_OrderIndependence ==
  \A s \in Streams, cb \in DOMAIN callbacks :
    OneRegisterOneNotify(s, cb)
    => /\ Len(callbacks[cb].inv) = 1
       /\ callbacks[cb].inv[1].val = Sent(s, callbacks[cb].ch)[1]
       /\ ~Has(CbMap(callbacks[cb].ch), s)
       /\ ~Has(PendingMap(callbacks[cb].ch), s)

\* Both orders have happened for trailing metadata with a non-zero status code: on
\* one stream the registration found the value buffered, on the other the notify
\* found the callback stored.
C13_Witness ==
  \E c1 \in DOMAIN callbacks, c2 \in DOMAIN callbacks :
    /\ callbacks[c1].ch = "tm" /\ callbacks[c2].ch = "tm"
    /\ callbacks[c1].id # callbacks[c2].id
    /\ OneRegisterOneNotify(callbacks[c1].id, c1)
    /\ OneRegisterOneNotify(callbacks[c2].id, c2)
    /\ Len(callbacks[c1].inv) = 1 /\ callbacks[c1].inv[1].by = "register"
    /\ Len(callbacks[c2].inv) = 1 /\ callbacks[c2].inv[1].by = "notify"
    /\ callbacks[c1].inv[1].val.status = 1
    /\ callbacks[c2].inv[1].val.status = 1


\* ---- C14: double registration.  Callers that do not keep the contract: any thread
\* registers on any channel of any stream at any time.
MaxDoubleCalls == 3

DoubleStep(t) ==
  \/ RegisterRecvInitialMetadata_Locked(t)
  \/ RegisterRecvInitialMetadata_Unlock(t)
  \/ RegisterRecvMessage_Locked(t)
  \/ RegisterRecvMessage_Unlock(t)
  \/ RegisterRecvTrailingMetadata_Locked(t)
  \/ RegisterRecvTrailingMetadata_Unlock(t)

DoubleNext ==
  \E t \in Threads :
    \/ /\ calls < MaxDoubleCalls
       /\ \E id \in Streams :
            \/ RegisterRecvInitialMetadata_Call(t, id)
            \/ RegisterRecvMessage_Call(t, id)
            \/ RegisterRecvTrailingMetadata_Call(t, id)
    \/ DoubleStep(t)

DoubleSpec == Init /\ [][DoubleNext]_vars

\* C14: a callback that is stored and unresolved is never replaced by the callback
\* of another registration.
C14_NeverOverwritten ==
  [][\A s \in Streams, ch \in Channels :
       Has(CbMap(ch), s) => (Has(CbMap(ch)', s) /\ CbMap(ch)'[s] = CbMap(ch)[s])]_vars

\* A registration called while a callback is stored for its stream and channel, and
\* no thread is inside a critical section, fails the assertion.
C14_SequentialAborts ==
  [][\A t \in Threads, s \in Streams, ch \in Channels :
       (/\ m_ = 0
        /\ Has(CbMap(ch), s)
        /\ stack'[t] # stack[t]
        /\ Len(stack'[t]) > Len(stack[t])
        /\ Top(t)'.op = RegisterOps[ch]
        /\ Top(t)'.id = s) => FALSE]_vars


\* ---- C15: conservation of notified values, on a stream that is never Cleared.
NotifyOps == [im |-> "NotifyRecvInitialMetadata", msg |-> "NotifyRecvMessage",
              tm |-> "NotifyRecvTrailingMetadata"]
AllValues == Results \cup TrailingResults
Count(q, v) == Cardinality({i \in 1..Len(q) : q[i] = v})
Buffered(s, ch) == IF Has(PendingMap(ch), s) THEN PendingMap(ch)[s] ELSE <<>>
\* The calls that have taken v for a callback of channel ch of stream s and have not
\* invoked it yet: a Register* that popped v, a Notify* of v that took the callback.
InHand(s, ch, v) ==
  {x \in LiveFrames :
     LET f == FrameAt(x) IN
       /\ f.op \in {RegisterOps[ch], NotifyOps[ch]}
       /\ f.id = s
       /\ f.pc \in {"unlock", "invoke"}
       /\ f.cb # 0
       /\ f.val = v}
\* The invocations of callbacks of channel ch of stream s with the notified value v.
Deliveries(s, ch, v) ==
  {<<cb, i>> \in (DOMAIN callbacks) \X (1..2) :
     /\ callbacks[cb].id = s
     /\ callbacks[cb].ch = ch
     /\ i <= Len(callbacks[cb].inv)
     /\ callbacks[cb].inv[i].by \in {"register", "notify"}
     /\ callbacks[cb].inv[i].val = v}

\* C15: every value that a Notify* put into the receiver is buffered in the pending
\* queue of its stream and channel, or in the hands of the one call that is about to
\* deliver it, or has been delivered to one callback of that stream and channel, and
\* is counted once; a callback is invoked with a success value only by a Register* or
\* a Notify*, so only with a value notified on its own stream and channel.
C15_Conservation ==
  /\ \A s \in Streams, ch \in Channels, v \in AllValues :
       Count(Sent(s, ch), v)
         = Count(Buffered(s, ch), v) + Cardinality(InHand(s, ch, v))
             + Cardinality(Deliveries(s, ch, v))
  /\ \A cb \in DOMAIN callbacks :
       /\ Len(callbacks[cb].inv) <= 2
       /\ \A i \in 1..Len(callbacks[cb].inv) :
            callbacks[cb].inv[i].val.kind = "ok"
              => callbacks[cb].inv[i].by \in {"register", "notify"}

\* A message is still buffered after the trailing metadata of its stream was notified
\* and a CancelStream cancelled a callback of the stream.
C15_Witness ==
  \E s \in Streams :
    /\ Has(pending_message_, s)
    /\ Len(Sent(s, "tm")) = 1
    /\ \E cb \in DOMAIN callbacks :
         /\ callbacks[cb].id = s
         /\ WasInvoked(cb)
         /\ callbacks[cb].inv[1].by = "cancel_stream"


\* ---- C16: cross-stream independence.
\* What the receiver holds for stream s.
StreamState(s) ==
  <<[ch \in Channels |-> Get(CbMap(ch), s)], [ch \in Channels |-> Buffered(s, ch)],
    s \in recv_message_cancelled_>>
\* Thread t takes a step: it enters a call or moves the call it is in.
Moves(t) == stack'[t] # stack[t]
\* The stream of the call that takes the step.
ActingStream(t) == IF Len(stack'[t]) > Len(stack[t]) THEN Top(t)'.id ELSE Top(t).id

\* C16: a step of an operation on stream s changes nothing the receiver holds for any
\* other stream, and invokes no callback registered on another stream.
C16_CrossStream ==
  [][\A t \in Threads :
       Moves(t) =>
         \A s \in Streams \ {ActingStream(t)} :
           /\ StreamState(s)' = StreamState(s)
           /\ \A cb \in DOMAIN callbacks : callbacks[cb].id = s => callbacks'[cb] = callbacks[cb]]_vars

\* With no call in progress, one stream still holds its stored callback after a
\* callback of the other stream was cancelled by CancelStream.
C16_Witness ==
  /\ \A t \in Threads : stack[t] = <<>>
  /\ \E s1 \in Streams, s2 \in Streams, ch1 \in Channels, cb \in DOMAIN callbacks :
       /\ s1 # s2
       /\ Has(CbMap(ch1), s1)
       /\ callbacks[cb].id = s2
       /\ WasInvoked(cb)
       /\ callbacks[cb].inv[1].by = "cancel_stream"


\* ---- C17: NotifyRecvTrailingMetadata cancels before it matches or buffers.
\* The one invocation of cb was the graceful cancellation by a trailing-metadata notify.
CancelledByTrailing(cb) ==
  /\ Len(callbacks[cb].inv) = 1
  /\ callbacks[cb].inv[1].val = kGrpcBinderTransportCancelledGracefully
  /\ callbacks[cb].inv[1].by = "tm_cancel"

\* C17: the first critical section of NotifyRecvTrailingMetadata(s, ...) takes the
\* message callback waiting on s, if any, and sets the marker of s in either case; as
\* long as the call is in its cancellation part it leaves the trailing-metadata slot
\* and queue alone; and when it comes to match or buffer its own result, and when it
\* invokes the trailing-metadata callback, the message callback it took has been
\* invoked, once, with the graceful-cancellation error.
C17_CancelsFirst ==
  [][\A t \in Threads :
       /\ (At(t, "NotifyRecvTrailingMetadata", "c_lock") /\ m_' = t)
          => /\ Top(t).id \in recv_message_cancelled_'
             /\ ~Has(message_cbs_', Top(t).id)
             /\ Top(t)'.hcb = Get(message_cbs_, Top(t).id)
       /\ (Steps(t, "NotifyRecvTrailingMetadata")
             /\ Top(t).pc \in {"c_lock", "c_unlock", "c_invoke", "c_in_cb"})
          => UNCHANGED <<trailing_metadata_cbs_, pending_trailing_metadata_>>
       /\ (Steps(t, "NotifyRecvTrailingMetadata")
             /\ Top(t).pc \in {"lock", "unlock", "invoke"}
             /\ Top(t).hcb # 0)
          => CancelledByTrailing(Top(t).hcb)]_vars

\* A notify of trailing metadata cancelled the waiting message callback and then
\* invoked the trailing-metadata callback of the same stream.
C17_Witness ==
  \E c1 \in DOMAIN callbacks, c2 \in DOMAIN callbacks :
    /\ callbacks[c1].id = callbacks[c2].id
    /\ callbacks[c1].ch = "msg"
    /\ callbacks[c2].ch = "tm"
    /\ CancelledByTrailing(c1)
    /\ WasInvoked(c2)
    /\ callbacks[c2].inv[1].by = "notify"
    /\ callbacks[c1].id \in recv_message_cancelled_


\* ---- C18: on a server-role receiver the accept-stream signal comes first.
\* The initial-metadata values of stream s that a notify has resolved: buffered, taken
\* for a callback, or passed to a callback.
InitialMetadataResolved(s) ==
  Len(Buffered(s, "im"))
    + Cardinality(UNION {InHand(s, "im", v) : v \in Results})
    + Cardinality(UNION {Deliveries(s, "im", v) : v \in Results})

\* C18: on a server-role receiver every initial-metadata value that has been buffered
\* or matched with a callback has its own accept-stream signal behind it: the signals
\* fired for a stream are at least as many as the values resolved for it, so no
\* callback is invoked with a notified value, and no value is buffered, before the
\* signal of its notify.
C18_AcceptFirst ==
  ~is_client_ => \A s \in Streams : accepted[s] >= InitialMetadataResolved(s)

\* On a server-role receiver a notify found the initial-metadata callback stored and
\* invoked it, after the one accept-stream signal of the stream.
C18_Witness ==
  /\ ~is_client_
  /\ \E cb \in DOMAIN callbacks :
       /\ callbacks[cb].ch = "im"
       /\ WasInvoked(cb)
       /\ callbacks[cb].inv[1].by = "notify"
       /\ callbacks[cb].inv[1].val.kind = "ok"
       /\ accepted[callbacks[cb].id] = 1


\* ---- C19: the cancellation marker and the message slot.
\* C19: while the marker of a stream is set no message callback is stored for it; the
\* marker is removed only by the critical section of a Clear of that stream; and a
\* RegisterRecvMessage that finds the marker set and nothing buffered does not store
\* its callback but invokes it with the graceful-cancellation error.
C19_MarkerExcludesWaiting ==
  /\ [](\A s \in recv_message_cancelled_ : ~Has(message_cbs_, s))
  /\ [][/\ \A s \in recv_message_cancelled_ \ recv_message_cancelled_' :
              \E t \in Threads : Locks(t, "Clear") /\ Top(t).id = s
        /\ \A t \in Threads :
              (/\ Locks(t, "RegisterRecvMessage")
               /\ Top(t).id \in recv_message_cancelled_
               /\ ~Has(pending_message_, Top(t).id))
              => /\ message_cbs_' = message_cbs_
                 /\ callbacks'[Top(t).cb].inv =
                      <<[val |-> kGrpcBinderTransportCancelledGracefully,
                         locked |-> TRUE, by |-> "register_cancelled"]>>]_vars

\* RegisterRecvMessage was called before the trailing metadata was notified and ran
\* its critical section after: its callback was cancelled, and none is stored.
C19_Witness ==
  \E cb \in DOMAIN callbacks :
    /\ callbacks[cb].ch = "msg"
    /\ callbacks[cb].id \in recv_message_cancelled_
    /\ WasInvoked(cb)
    /\ callbacks[cb].inv[1].by = "register_cancelled"
    /\ \E t \in Threads :
         /\ stack[t] # <<>>
         /\ Top(t).op = "NotifyRecvTrailingMetadata"
         /\ Top(t).id = callbacks[cb].id
         /\ Top(t).pc = "lock"
    /\ calls = 2


\* ---- C20: teardown atomicity.
\* The receiver holds nothing for stream s.
NoState(s) ==
  /\ \A ch \in Channels : ~Has(CbMap(ch), s) /\ ~Has(PendingMap(ch), s)
  /\ s \notin recv_message_cancelled_

\* C20: when a NotifyRecvTrailingMetadata(s, ...) comes to its second critical section
\* and a Clear(s) has been the last to touch s since the first one, it leaves s with
\* no state.
C20_ClearIsFinal ==
  [][\A t \in Threads :
       (/\ Locks(t, "NotifyRecvTrailingMetadata")
        /\ cleared[Top(t).id] # "no")
       => NoState(Top(t).id)']_vars

====
